---- MODULE Spec2Model ----
(***************************************************************************)
(* generate_icon.py: a straight-line script that paints a clock icon on a  *)
(* 1024x1024 RGB canvas and saves it as a PNG.                             *)
(*                                                                         *)
(* The canvas is modelled as the list of drawing calls made on it, in the  *)
(* order they were made (painter's algorithm); the colour of a pixel is    *)
(* the fill of the last call that covers it.  Float coordinates are kept   *)
(* in fixed point, 1000 units per pixel; math.cos / math.sin are a table   *)
(* of values scaled by 10^6.  The environment (which font files load,      *)
(* whether PIL raises while measuring or drawing, whether the output path  *)
(* can be written) is chosen nondeterministically at the step that asks.   *)
(***************************************************************************)
EXTENDS Integers, Sequences, FiniteSets

VARIABLES pc,        \* position in the script
          y,         \* gradient loop variable (line 11)
          i,         \* hour marker loop variable (line 30)
          canvas,    \* drawing calls made on `image` so far
          tried,     \* font candidates whose load was attempted, in order
          font,      \* the font object bound at lines 68-73, or "none"
          bbox,      \* result of draw.textbbox (line 78), or <<>>
          bbox_font, \* the font draw.textbbox was given, or "none"
          exc,       \* the exception being propagated, or "none"
          stdout,    \* lines printed
          stderr,    \* unhandled exceptions reported by the interpreter
          file,      \* content of output_path: <<>> (absent) or <<canvas>>
          saves      \* number of image.save calls made

vars == <<pc, y, i, canvas, tried, font, bbox, bbox_font, exc, stdout, stderr, file, saves>>

---------------------------------------------------------------------------
(* Constants of the script *)

size == 1024
center == size \div 2
clock_radius == 380
marker_color == <<255, 102, 77>>
outer_radius == clock_radius - 30
inner_radius == clock_radius - 80
hour_length == 180
minute_length == 260
hub_radius == 40
font_size == 180
shadow_offset == 8
text_y == size - 200
white == <<255, 255, 255>>
black == <<0, 0, 0>>

\* The font candidates, in the order of the nested try blocks.
SFCompact == "/System/Library/Fonts/SFCompact.ttf"
Helvetica == "/System/Library/Fonts/Helvetica.ttc"
DefaultFont == "load_default"

---------------------------------------------------------------------------
(* Arithmetic *)

Abs(n) == IF n < 0 THEN -n ELSE n

\* Coordinates are in units of 1/1000 pixel.
Px(n) == n * 1000

\* 10^6 * cos(d degrees) for d = 0, 10, ..., 90 (rounded to nearest).
CosTable == <<1000000, 984808, 939693, 866025, 766044,
              642788, 500000, 342020, 173648, 0>>

Cos90(d) == CosTable[(d \div 10) + 1]

\* 10^6 * math.cos(math.radians(deg)), deg a multiple of 10.
cos(deg) ==
  LET d == deg % 360
  IN  IF d <= 90 THEN Cos90(d)
      ELSE IF d <= 180 THEN -Cos90(180 - d)
      ELSE IF d <= 270 THEN -Cos90(d - 180)
      ELSE Cos90(360 - d)

\* 10^6 * math.sin(math.radians(deg)), deg a multiple of 10.
sin(deg) == cos(deg - 90)

\* center + radius * math.cos(angle), in 1/1000 pixel.
PolarX(radius, deg) == Px(center) + (radius * cos(deg)) \div 1000

\* center + radius * math.sin(angle), in 1/1000 pixel.
PolarY(radius, deg) == Px(center) + (radius * sin(deg)) \div 1000

---------------------------------------------------------------------------
(* Gradient colour of row yy (lines 13-16).  ratio = yy / size; the float  *)
(* products are exact rationals here: 0.2 is 1/5, and int() truncates a    *)
(* non-negative value, which is \div.                                      *)

\* Faulty variant: round() instead of int()
GradientRRounded(yy) == (2 * 255 * (5 * size - yy) + 5 * size) \div (2 * 5 * size)

GradientR(yy) == (255 * (5 * size - yy)) \div (5 * size)
GradientG(yy) == (76 * size + 100 * yy) \div size
GradientB(yy) == (76 * size + 50 * yy) \div size

---------------------------------------------------------------------------
(* Drawing calls.  xy holds the coordinates passed, in 1/1000 pixel.       *)

Call(op, xy, fill, width, box, f) ==
  [op |-> op, xy |-> xy, fill |-> fill, width |-> width, box |-> box, font |-> f]

\* draw.line([(0, y), (size, y)], fill=(r, g, b))   (line 17)
GradientLine(yy) ==
  Call("line", <<Px(0), Px(yy), Px(size), Px(yy)>>,
       <<GradientR(yy), GradientG(yy), GradientB(yy)>>, 1, <<>>, "none")

\* draw.ellipse([...], fill='white')   (lines 22-26)
ClockFaceEllipse ==
  Call("ellipse",
       <<Px(center - clock_radius), Px(center - clock_radius),
         Px(center + clock_radius), Px(center + clock_radius)>>,
       white, 0, <<>>, "none")

\* angle of marker ii in degrees (line 31)
MarkerAngle(ii) == ii * 30 - 90

\* Faulty variant: the marker starts 30 beyond the clock face instead of 30 inside it
MarkerLineOutside(ii) ==
  LET angle == MarkerAngle(ii)
      x1 == PolarX(clock_radius + 30, angle)
      y1 == PolarY(clock_radius + 30, angle)
      x2 == PolarX(inner_radius, angle)
      y2 == PolarY(inner_radius, angle)
  IN  Call("line", <<x1, y1, x2, y2>>, marker_color, 20, <<>>, "none")

\* draw.line([(x1, y1), (x2, y2)], fill=marker_color, width=20)  (lines 31-40)
MarkerLine(ii) ==
  LET angle == MarkerAngle(ii)
      x1 == PolarX(outer_radius, angle)
      y1 == PolarY(outer_radius, angle)
      x2 == PolarX(inner_radius, angle)
      y2 == PolarY(inner_radius, angle)
  IN  Call("line", <<x1, y1, x2, y2>>, marker_color, 20, <<>>, "none")

\* lines 44-48
hour_angle == 10 * 30 - 90
hour_x == PolarX(hour_length, hour_angle)
\* Faulty variant: the sine term subtracted instead of added
hour_y_flipped == Px(center) - (hour_length * sin(hour_angle)) \div 1000

hour_y == PolarY(hour_length, hour_angle)
HourHandLine ==
  Call("line", <<Px(center), Px(center), hour_x, hour_y>>, <<51, 51, 51>>, 30, <<>>, "none")

\* lines 51-55
minute_angle == 10 - 90
minute_x == PolarX(minute_length, minute_angle)
minute_y == PolarY(minute_length, minute_angle)
MinuteHandLine ==
  Call("line", <<Px(center), Px(center), minute_x, minute_y>>, <<77, 77, 77>>, 24, <<>>, "none")

\* lines 58-61
HubEllipse ==
  Call("ellipse",
       <<Px(center - hub_radius), Px(center - hub_radius),
         Px(center + hub_radius), Px(center + hub_radius)>>,
       marker_color, 0, <<>>, "none")

\* The canvas is RGB: a fill with a fourth (alpha) channel keeps its first
\* three channels and is painted opaque.
RGBInk(fill) == <<fill[1], fill[2], fill[3]>>

\* lines 79-83, from the measured box b = (left, top, right, bottom)
text_width(b) == b[3] - b[1]
text_height(b) == b[4] - b[2]
text_x(b) == (size - text_width(b)) \div 2

\* draw.text((text_x + shadow_offset, text_y + shadow_offset), text,
\*           fill=(0, 0, 0, 128), font=font)   (lines 87-88)
ShadowText(b, f) ==
  Call("text", <<Px(text_x(b) + shadow_offset), Px(text_y + shadow_offset)>>,
       RGBInk(<<0, 0, 0, 128>>), 0, b, f)

\* draw.text((text_x, text_y), text, fill='white', font=font)   (line 91)
MainText(b, f) ==
  Call("text", <<Px(text_x(b)), Px(text_y)>>, white, 0, b, f)

\* Boxes draw.textbbox((0, 0), "AT", font=font) can return: a scalable font
\* at font_size 180, or the small built-in font of load_default().
TextBoxes(f) ==
  IF f = DefaultFont THEN {<<0, 0, 12, 11>>, <<0, 3, 14, 10>>}
  ELSE {<<3, 45, 237, 174>>, <<0, 41, 222, 170>>}

---------------------------------------------------------------------------
(* Pixels.  A pixel (px, py) is given in whole pixels.                     *)

RECURSIVE ISqrtIter(_, _, _)
ISqrtIter(v, lo, hi) ==
  IF lo >= hi THEN lo
  ELSE LET mid == (lo + hi + 1) \div 2
       IN  IF mid * mid <= v THEN ISqrtIter(v, mid, hi)
           ELSE ISqrtIter(v, lo, mid - 1)

\* floor of the square root, for 0 <= v < 2^28
ISqrt(v) == ISqrtIter(v, 0, 16383)

\* A line of width w covers the pixels of the canvas within w/2 of the
\* segment, measured across it, and between its two ends along it (so
\* within the segment's bounding box widened by w/2, tested first).
\* Computed in 1/10 pixel.
LineCovers(c, px, py) ==
  LET ax == c.xy[1] \div 100
      ay == c.xy[2] \div 100
      bx == c.xy[3] \div 100
      by == c.xy[4] \div 100
      dx == bx - ax
      dy == by - ay
      qx == px * 10 - ax
      qy == py * 10 - ay
      len == ISqrt(dx * dx + dy * dy)
      along == qx * dx + qy * dy
      across == Abs(qx * dy - qy * dx)
      half == c.width * 5
  IN  /\ Abs(2 * py * 10 - ay - by) <= Abs(dy) + 2 * half
      /\ Abs(2 * px * 10 - ax - bx) <= Abs(dx) + 2 * half
      /\ 0 <= along
      /\ along <= dx * dx + dy * dy
      /\ across <= half * len

\* An ellipse given by its bounding box; here always a circle.
EllipseCovers(c, px, py) ==
  LET cx == (c.xy[1] + c.xy[3]) \div 2000
      cy == (c.xy[2] + c.xy[4]) \div 2000
      r  == (c.xy[3] - c.xy[1]) \div 2000
  IN  (px - cx) * (px - cx) + (py - cy) * (py - cy) <= r * r

\* Text drawn at anchor (X, Y) paints inside the measured box moved to the
\* anchor; the glyphs' ink is taken to be the whole box.
TextCovers(c, px, py) ==
  LET X == c.xy[1] \div 1000
      Y == c.xy[2] \div 1000
  IN  /\ X + c.box[1] <= px /\ px < X + c.box[3]
      /\ Y + c.box[2] <= py /\ py < Y + c.box[4]

OnCanvas(px, py) == 0 <= px /\ px < size /\ 0 <= py /\ py < size

Covers(c, px, py) ==
  /\ OnCanvas(px, py)
  /\ CASE c.op = "line"    -> LineCovers(c, px, py)
       [] c.op = "ellipse" -> EllipseCovers(c, px, py)
       [] c.op = "text"    -> TextCovers(c, px, py)

\* Colour of pixel (px, py) of an image painted by the calls cs: the fill of
\* the last call covering it; Image.new('RGB', ...) starts black (line 7).
ColourAt(cs, px, py) ==
  LET hits == {k \in 1..Len(cs) : Covers(cs[k], px, py)}
  IN  IF hits = {} THEN black
      ELSE cs[CHOOSE k \in hits : \A j \in hits : j <= k].fill

---------------------------------------------------------------------------
(* The script *)

Init ==
  /\ pc = "gradient"
  /\ y = 0
  /\ i = 0
  /\ canvas = <<>>
  /\ tried = <<>>
  /\ font = "none"
  /\ bbox = <<>>
  /\ bbox_font = "none"
  /\ exc = "none"
  /\ stdout = <<>>
  /\ stderr = <<>>
  /\ file = <<>>
  /\ saves = 0

\* lines 11-17: one iteration of the gradient loop
GradientRow ==
  /\ pc = "gradient"
  /\ y < size
  /\ canvas' = Append(canvas, GradientLine(y))
  /\ y' = y + 1
  /\ pc' = IF y + 1 < size THEN "gradient" ELSE "clock_face"
  /\ UNCHANGED <<i, tried, font, bbox, bbox_font, exc, stdout, stderr, file, saves>>

\* lines 20-26
ClockFace ==
  /\ pc = "clock_face"
  /\ canvas' = Append(canvas, ClockFaceEllipse)
  /\ pc' = "markers"
  /\ UNCHANGED <<y, i, tried, font, bbox, bbox_font, exc, stdout, stderr, file, saves>>

\* lines 30-40: one iteration of the marker loop
HourMarker ==
  /\ pc = "markers"
  /\ i < 12
  /\ canvas' = Append(canvas, MarkerLine(i))
  /\ i' = i + 1
  /\ pc' = IF i + 1 < 12 THEN "markers" ELSE "hour_hand"
  /\ UNCHANGED <<y, tried, font, bbox, bbox_font, exc, stdout, stderr, file, saves>>

\* lines 44-48
HourHand ==
  /\ pc = "hour_hand"
  /\ canvas' = Append(canvas, HourHandLine)
  /\ pc' = "minute_hand"
  /\ UNCHANGED <<y, i, tried, font, bbox, bbox_font, exc, stdout, stderr, file, saves>>

\* lines 51-55
MinuteHand ==
  /\ pc = "minute_hand"
  /\ canvas' = Append(canvas, MinuteHandLine)
  /\ pc' = "center_hub"
  /\ UNCHANGED <<y, i, tried, font, bbox, bbox_font, exc, stdout, stderr, file, saves>>

\* lines 58-61
CenterHub ==
  /\ pc = "center_hub"
  /\ canvas' = Append(canvas, HubEllipse)
  /\ pc' = "font_sfcompact"
  /\ UNCHANGED <<y, i, tried, font, bbox, bbox_font, exc, stdout, stderr, file, saves>>

\* Faulty variant: the Helvetica candidate is skipped
AfterFontFailureSkipping(candidate) ==
  CASE candidate = SFCompact   -> "font_default"
    [] candidate = Helvetica   -> "font_default"
    [] candidate = DefaultFont -> "except"

\* Faulty variant: no inner try: the first failed load leaves the outer try block
AfterFontFailureUncaught(candidate) == "except"

\* Where control goes when a font candidate fails to load: the bare except
\* clauses of lines 69 and 72 go on to the next candidate, a failure of
\* load_default() leaves the outer try block.
AfterFontFailure(candidate) ==
  CASE candidate = SFCompact   -> "font_helvetica"
    [] candidate = Helvetica   -> "font_default"
    [] candidate = DefaultFont -> "except"

\* One load attempt (lines 68, 71, 73): the environment decides whether the
\* candidate loads.
LoadFont(at, candidate) ==
  /\ pc = at
  /\ tried' = Append(tried, candidate)
  /\ \/ /\ font' = candidate
        /\ pc' = "textbbox"
        /\ UNCHANGED exc
     \/ /\ font' = font
        /\ pc' = AfterFontFailure(candidate)
        /\ exc' = IF candidate = DefaultFont THEN "load_default failed" ELSE "none"
  /\ UNCHANGED <<y, i, canvas, bbox, bbox_font, stdout, stderr, file, saves>>

LoadSFCompact == LoadFont("font_sfcompact", SFCompact)
LoadHelvetica == LoadFont("font_helvetica", Helvetica)
LoadDefault == LoadFont("font_default", DefaultFont)

\* lines 78-83: draw.textbbox((0, 0), text, font=font) returns a box or raises
TextBBox ==
  /\ pc = "textbbox"
  /\ \/ /\ \E b \in TextBoxes(font) : bbox' = b
        /\ bbox_font' = font
        /\ pc' = "shadow"
        /\ UNCHANGED exc
     \/ /\ exc' = "textbbox failed"
        /\ pc' = "except"
        /\ UNCHANGED <<bbox, bbox_font>>
  /\ UNCHANGED <<y, i, canvas, tried, font, stdout, stderr, file, saves>>

\* lines 86-88: draw.text paints the shadow or raises
DrawShadow ==
  /\ pc = "shadow"
  /\ \/ /\ canvas' = Append(canvas, ShadowText(bbox, font))
        /\ pc' = "main_text"
        /\ UNCHANGED exc
     \/ /\ exc' = "shadow text failed"
        /\ pc' = "except"
        /\ UNCHANGED canvas
  /\ UNCHANGED <<y, i, tried, font, bbox, bbox_font, stdout, stderr, file, saves>>

\* Faulty variant: the main text is painted beneath the shadow, as if drawn first
DrawMainTextUnder ==
  /\ pc = "main_text"
  /\ \/ /\ canvas' = Append(Append(SubSeq(canvas, 1, Len(canvas) - 1),
                                   MainText(bbox, font)),
                            canvas[Len(canvas)])
        /\ pc' = "save"
        /\ UNCHANGED exc
     \/ /\ exc' = "main text failed"
        /\ pc' = "except"
        /\ UNCHANGED canvas
  /\ UNCHANGED <<y, i, tried, font, bbox, bbox_font, stdout, stderr, file, saves>>

\* line 91: draw.text paints the main text or raises
DrawMainText ==
  /\ pc = "main_text"
  /\ \/ /\ canvas' = Append(canvas, MainText(bbox, font))
        /\ pc' = "save"
        /\ UNCHANGED exc
     \/ /\ exc' = "main text failed"
        /\ pc' = "except"
        /\ UNCHANGED canvas
  /\ UNCHANGED <<y, i, tried, font, bbox, bbox_font, stdout, stderr, file, saves>>

\* Faulty variant: the handler re-raises instead of swallowing the exception
ExceptReraise ==
  /\ pc = "except"
  /\ stderr' = Append(stderr, exc)
  /\ pc' = "failed"
  /\ UNCHANGED <<y, i, canvas, tried, font, bbox, bbox_font, exc, stdout, file, saves>>

\* lines 93-94: except Exception as e: print(f"Could not add text: {e}")
Except ==
  /\ pc = "except"
  /\ stdout' = Append(stdout, <<"Could not add text", exc>>)
  /\ exc' = "none"
  /\ pc' = "save"
  /\ UNCHANGED <<y, i, canvas, tried, font, bbox, bbox_font, stderr, file, saves>>

\* What image.save(output_path) can raise when the path cannot be opened.
SaveErrors == {"FileNotFoundError", "PermissionError"}

\* Faulty variant: a failed save is swallowed and the script goes on to line 99
SaveIgnoringError ==
  /\ pc = "save"
  /\ saves' = saves + 1
  /\ pc' = "print_saved"
  /\ \/ file' = <<canvas>>
     \/ UNCHANGED file
  /\ UNCHANGED <<y, i, canvas, tried, font, bbox, bbox_font, exc, stdout, stderr>>

\* line 98: image.save(output_path) writes the file or raises; nothing
\* handles the exception, so the script ends there.
Save ==
  /\ pc = "save"
  /\ saves' = saves + 1
  /\ \/ /\ file' = <<canvas>>
        /\ pc' = "print_saved"
        /\ UNCHANGED <<exc, stderr>>
     \/ /\ \E e \in SaveErrors :
             /\ exc' = e
             /\ stderr' = Append(stderr, e)
        /\ pc' = "failed"
        /\ UNCHANGED file
  /\ UNCHANGED <<y, i, canvas, tried, font, bbox, bbox_font, stdout>>

\* line 99
PrintSaved ==
  /\ pc = "print_saved"
  /\ stdout' = Append(stdout, <<"App icon saved to", "output_path">>)
  /\ pc' = "done"
  /\ UNCHANGED <<y, i, canvas, tried, font, bbox, bbox_font, exc, stderr, file, saves>>

Next ==
  \/ GradientRow
  \/ ClockFace
  \/ HourMarker
  \/ HourHand
  \/ MinuteHand
  \/ CenterHub
  \/ LoadSFCompact
  \/ LoadHelvetica
  \/ LoadDefault
  \/ TextBBox
  \/ DrawShadow
  \/ DrawMainText
  \/ Except
  \/ Save
  \/ PrintSaved

Spec == Init /\ [][Next]_vars

\* The scheduling of a sequential script: it keeps running until it ends.
FairSpec == Spec /\ WF_vars(Next)

---------------------------------------------------------------------------
(* Vocabulary of the properties *)

Range(s) == {s[k] : k \in 1..Len(s)}

\* the 'Could not add text' lines printed so far
Diagnostics == {k \in 1..Len(stdout) : stdout[k][1] = "Could not add text"}

\* the 'App icon saved to' lines printed so far
Confirmations == {k \in 1..Len(stdout) : stdout[k][1] = "App icon saved to"}

HasShadow(cs) == \E c \in Range(cs) : c.op = "text" /\ c.fill = black
HasMainText(cs) == \E c \in Range(cs) : c.op = "text" /\ c.fill = white

\* control is past the text overlay (line 96 onwards)
PastText == pc \in {"save", "print_saved", "done", "failed"}

\* the script has ended
Ended == pc \in {"done", "failed"}

\* the exceptions the text overlay can raise inside the outer try block
TextErrors == {"load_default failed", "textbbox failed",
               "shadow text failed", "main text failed"}

---------------------------------------------------------------------------
\* what holds of every state: at most one diagnostic, printed exactly when
\* the overlay failed; only a save error ends the run failed; one save
C1_State ==
  /\ Cardinality(Diagnostics) <= 1
  /\ pc = "except" => exc \in TextErrors /\ Diagnostics = {} /\ saves = 0
  /\ pc = "failed" => exc \in SaveErrors
  /\ PastText => (Cardinality(Diagnostics) = 1 <=> ~HasMainText(canvas))
  /\ \A k \in Diagnostics : stdout[k][2] \in TextErrors
  /\ saves = (IF pc \in {"print_saved", "done", "failed"} THEN 1 ELSE 0)
  /\ file # <<>> => file = <<canvas>>

\* the handler always goes on to the save step, canvas untouched, and a
\* raise in the overlay always goes to the handler
C1_Step ==
  /\ pc = "except" => pc' = "save" /\ canvas' = canvas
  /\ exc \notin TextErrors /\ exc' \in TextErrors => pc' = "except"

\* C1: an exception raised in the text overlay (fallback font load,
\* measurement, shadow draw, main draw) is caught: it prints exactly one
\* 'Could not add text' line, never ends the run, and control reaches the
\* save step, which is attempted exactly once with the canvas as drawn so far.
C1_CaughtAndSavedOnce ==
  /\ []C1_State
  /\ [][C1_Step]_vars
  /\ (exc \in TextErrors) ~> (saves = 1 /\ Cardinality(Diagnostics) = 1)

\* the main draw raised after the shadow was painted; the run still ended
\* with the file written
C1_Witness ==
  /\ pc = "done"
  /\ stdout[1] = <<"Could not add text", "main text failed">>
  /\ saves = 1
  /\ file = <<canvas>>

---------------------------------------------------------------------------
\* C2: the confirmation line is printed if and only if the write succeeded:
\* a run ends either done, with the file written and one confirmation, or
\* failed on an unhandled save error (output directory missing or not
\* writable), with no file and no confirmation.
C2_ConfirmationIffWritten ==
  /\ Cardinality(Confirmations) <= 1
  /\ Confirmations # {} => file # <<>>
  /\ Ended => (Confirmations # {} <=> file # <<>>)
  /\ pc = "done" => file = <<canvas>> /\ stderr = <<>>
  /\ pc = "failed" => file = <<>> /\ Confirmations = {} /\ stderr # <<>>
  /\ stderr # <<>> => pc = "failed" /\ Range(stderr) \subseteq SaveErrors

\* the output directory is missing: the run failed and left no file
C2_Witness ==
  /\ pc = "failed"
  /\ stderr = <<"FileNotFoundError">>
  /\ file = <<>>
  /\ Confirmations = {}

---------------------------------------------------------------------------
Candidates == <<SFCompact, Helvetica, DefaultFont>>

\* the candidates are tried in order, each only after the earlier ones failed
C3_Order ==
  /\ tried = SubSeq(Candidates, 1, Len(tried))
  /\ font # "none" => tried # <<>> /\ font = tried[Len(tried)]
  /\ font = DefaultFont <=> (Len(tried) = 3 /\ font # "none")
  /\ pc = "font_helvetica" => tried = <<SFCompact>> /\ font = "none"
  /\ pc = "font_default" => tried = <<SFCompact, Helvetica>> /\ font = "none"
  /\ bbox_font \in {"none", font}
  /\ \A c \in Range(canvas) : c.op = "text" => c.font = font /\ font # "none"

C3_State ==
  /\ C3_Order
  /\ Ended /\ font = DefaultFont =>
       /\ saves = 1
       /\ Diagnostics = {} /\ stderr = <<>> =>
            /\ pc = "done"
            /\ bbox_font = DefaultFont
            /\ HasShadow(canvas) /\ HasMainText(canvas)
            /\ Confirmations # {}
            /\ file = <<canvas>>

---------------------------------------------------------------------------
\* a preferred font file failed to load
PreferredFontFailed == Len(tried) > 1

---------------------------------------------------------------------------
\* C5: whenever the diagnostic line has been printed, the canvas that is
\* saved carries no text at all, neither the shadow nor the main copy.
C5_NoTextWhenFailed ==
  PastText /\ Diagnostics # {} =>
    /\ ~HasShadow(canvas) /\ ~HasMainText(canvas)
    /\ file # <<>> => ~HasShadow(file[1]) /\ ~HasMainText(file[1])

---------------------------------------------------------------------------
\* q is num / den truncated to an integer (num >= 0, den > 0)
IsTrunc(q, num, den) == q * den <= num /\ num < (q + 1) * den

\* the call that painted gradient row yy
RowCall(yy) == canvas[yy + 1]

\* C6: every row y in 0..1023 is painted whole in the colour (r, g, b) with
\* r = trunc(255*(1 - 0.2*y/1024)), g = trunc(76 + 100*y/1024),
\* b = trunc(76 + 50*y/1024); the colour depends on y only; r is in 204..255
\* and non-increasing in y, g in 76..175 and b in 76..125 non-decreasing.
C6_GradientRows ==
  /\ pc = "gradient" => Len(canvas) = y
  /\ Len(canvas) >= y
  /\ pc # "gradient" => y = size
  /\ \A yy \in 0..(y - 1) :
       LET c == RowCall(yy)
       IN  /\ c.op = "line"
           /\ c.xy[2] = Px(yy) /\ c.xy[4] = Px(yy)
           /\ c.xy[1] <= Px(0) /\ c.xy[3] >= Px(size - 1)
           /\ IsTrunc(c.fill[1], 255 * (5 * size - yy), 5 * size)
           /\ IsTrunc(c.fill[2], 76 * size + 100 * yy, size)
           /\ IsTrunc(c.fill[3], 76 * size + 50 * yy, size)
           /\ c.fill[1] \in 204..255
           /\ c.fill[2] \in 76..175
           /\ c.fill[3] \in 76..125
           /\ yy > 0 =>
                /\ c.fill[1] <= RowCall(yy - 1).fill[1]
                /\ c.fill[2] >= RowCall(yy - 1).fill[2]
                /\ c.fill[3] >= RowCall(yy - 1).fill[3]
  \* the row just painted, and the one before it, across the row
  /\ pc \in {"gradient", "clock_face"} =>
       \A yy \in {y - 1, y - 2} \cap (0..(size - 1)) :
         \A px \in {0, 1, center - 1, center, size - 2, size - 1} :
           ColourAt(canvas, px, yy) = RowCall(yy).fill
  \* all rows once the loop has ended, at both edges of the canvas
  /\ pc = "clock_face" =>
       \A yy \in 0..(size - 1) : \A px \in {0, size - 1} :
         ColourAt(canvas, px, yy) = RowCall(yy).fill

\* the loop has ended: the first row is (255, 76, 76), the last (204, 175, 125)
C6_Witness ==
  /\ pc = "clock_face"
  /\ y = size
  /\ ColourAt(canvas, 0, 0) = <<255, 76, 76>>
  /\ ColourAt(canvas, size - 1, size - 1) = <<204, 175, 125>>

---------------------------------------------------------------------------
\* C7: every coordinate passed to a drawing call lies in [0, 1024) on both
\* axes.
C7_CoordinatesOnCanvas ==
  \A k \in 1..Len(canvas) :
    \A n \in 1..Len(canvas[k].xy) :
      0 <= canvas[k].xy[n] /\ canvas[k].xy[n] < Px(size)

---------------------------------------------------------------------------
\* the hour marker calls made so far
Markers == SelectSeq(canvas, LAMBDA c : c.op = "line" /\ c.width = 20)

\* offsets from the centre, in 1/10 pixel
OffX(c, n) == (c.xy[n] - Px(center)) \div 100
OffY(c, n) == (c.xy[n + 1] - Px(center)) \div 100

Dot(ax, ay, bx, by) == ax * bx + ay * by
Cross(ax, ay, bx, by) == ax * by - ay * bx

\* the four corners of a marker's 20-wide rectangle, as offsets from the
\* centre in 1/10 pixel: each end moved 10 pixels either way across the
\* segment (the segment is 50 long, so a fifth of it, turned)
MarkerCorners(c) ==
  LET ux == OffX(c, 1) - OffX(c, 3)
      uy == OffY(c, 1) - OffY(c, 3)
  IN  {<<OffX(c, n) + sg * (uy \div 5), OffY(c, n) - sg * (ux \div 5)>> :
         n \in {1, 3}, sg \in {-1, 1}}

\* C8: the marker loop draws exactly 12 segments of width 20, marker 0
\* straight up from the centre and each next one 30 degrees further round,
\* each from radius 350 to radius 300 along its angle, and every point of
\* each segment, its width included, lies inside the circle of radius 380
\* centred at (512, 512).
C8_HourMarkers ==
  /\ Len(Markers) = i
  /\ i <= 12
  /\ pc \notin {"gradient", "clock_face", "markers"} => i = 12
  /\ Markers # <<>> =>
       Markers[1].xy = <<Px(center), Px(center - 350), Px(center), Px(center - 300)>>
  /\ \A k \in 1..Len(Markers) :
       LET c == Markers[k]
           ox == OffX(c, 1)
           oy == OffY(c, 1)
           ix == OffX(c, 3)
           iy == OffY(c, 3)
       IN  /\ c.fill = marker_color
           /\ Dot(ox, oy, ox, oy) \in (3499 * 3499)..(3501 * 3501)
           /\ Dot(ix, iy, ix, iy) \in (2999 * 2999)..(3001 * 3001)
           \* both ends on one ray from the centre
           /\ Abs(Cross(ox, oy, ix, iy)) <= 7000
           /\ Dot(ox, oy, ix, iy) > 0
           \* 30 degrees on from the marker before: cos 30 = 0.866025, sin 30 = 0.5
           /\ k > 1 =>
                LET px == OffX(Markers[k - 1], 1)
                    py == OffY(Markers[k - 1], 1)
                IN  /\ Abs(Dot(px, py, ox, oy) - 10608806) <= 10000
                    /\ Abs(Cross(px, py, ox, oy) - 6125000) <= 10000
           /\ \A p \in MarkerCorners(c) :
                Dot(p[1], p[2], p[1], p[2]) < 3800 * 3800

\* the loop has ended with twelve markers on the canvas
C8_Witness ==
  /\ pc = "hour_hand"
  /\ Len(Markers) = 12
  /\ Markers[4].xy = <<Px(center + 350), Px(center), Px(center + 300), Px(center)>>

---------------------------------------------------------------------------
\* the hour hand call, once made
HourHands == SelectSeq(canvas, LAMBDA c : c.op = "line" /\ c.width = 30)

\* C9 as stated: the hour hand ends at about (357.9, 602.0).
C9_Original ==
  HourHands # <<>> =>
    /\ Abs(HourHands[1].xy[3] - 357900) <= 100
    /\ Abs(HourHands[1].xy[4] - 602000) <= 100

\* C9 (amended): the hour-hand endpoint for angle 210 degrees and length 180
\* from the centre (512, 512) is about (356.1, 422.0), to within 0.1 pixel.
C9_HourHandEndpoint ==
  /\ Len(HourHands) <= 1
  /\ pc \notin {"gradient", "clock_face", "markers", "hour_hand"} => Len(HourHands) = 1
  /\ HourHands # <<>> =>
       /\ HourHands[1].xy[1] = Px(center) /\ HourHands[1].xy[2] = Px(center)
       /\ Abs(HourHands[1].xy[3] - 356100) <= 100
       /\ Abs(HourHands[1].xy[4] - 422000) <= 100

\* the hour hand has just been drawn
C9_Witness ==
  /\ pc = "minute_hand"
  /\ Len(HourHands) = 1
  /\ HourHands[1].xy[4] = Px(422)

---------------------------------------------------------------------------
\* the drawing step a call belongs to: 1 gradient, 2 clock face, 3 hour
\* markers, 4 hour hand, 5 minute hand, 6 centre hub, 7 text shadow, 8 main
\* text
Stage(c) ==
  CASE c.op = "line" /\ c.width = 1               -> 1
    [] c.op = "ellipse" /\ c.fill = white         -> 2
    [] c.op = "line" /\ c.width = 20              -> 3
    [] c.op = "line" /\ c.width = 30              -> 4
    [] c.op = "line" /\ c.width = 24              -> 5
    [] c.op = "ellipse" /\ c.fill = marker_color  -> 6
    [] c.op = "text" /\ c.fill = black            -> 7
    [] c.op = "text" /\ c.fill = white            -> 8

StageCount(cs, st) == Cardinality({k \in 1..Len(cs) : Stage(cs[k]) = st})

\* calls each step makes when it runs: a row per gradient iteration, a
\* segment per marker, one call for every other step
StageCalls == <<size, 1, 12, 1, 1, 1, 1, 1>>

InOrder(cs) == \A k \in 1..(Len(cs) - 1) : Stage(cs[k]) <= Stage(cs[k + 1])

\* pixels of the hub disc, on a grid of step 8 through the centre
HubPixels ==
  {p \in {<<center + 8 * dx, center + 8 * dy>> : dx \in -5..5, dy \in -5..5} :
     (p[1] - center) * (p[1] - center) + (p[2] - center) * (p[2] - center)
       <= hub_radius * hub_radius}

HubIntact(cs) == \A p \in HubPixels : ColourAt(cs, p[1], p[2]) = marker_color

\* pixels around the text: the corners and the middle of the main text's
\* box and of the shadow's
TextPixels(cs) ==
  UNION {LET X == c.xy[1] \div 1000
             Y == c.xy[2] \div 1000
         IN  {X + c.box[1], (2 * X + c.box[1] + c.box[3]) \div 2, X + c.box[3] - 1}
               \X {Y + c.box[2], (2 * Y + c.box[2] + c.box[4]) \div 2, Y + c.box[4] - 1}
         : c \in {d \in Range(cs) : d.op = "text"}}

\* pixels among them that both the shadow and the main text cover
OverlapPixels(cs) ==
  {p \in TextPixels(cs) :
     /\ \E c \in Range(cs) : Stage(c) = 7 /\ Covers(c, p[1], p[2])
     /\ \E c \in Range(cs) : Stage(c) = 8 /\ Covers(c, p[1], p[2])}

OverlapWhite(cs) == \A p \in OverlapPixels(cs) : ColourAt(cs, p[1], p[2]) = white

\* C10 as stated: the steps gradient, clock face, hour markers, hour hand,
\* minute hand, centre hub, text shadow, main text, save run exactly once
\* each in that order; in the saved image the hub disc has the hub colour
\* and shadow and main text overlap in white.  Stated of the runs that
\* complete.
C10_Original ==
  /\ InOrder(canvas)
  /\ pc = "done" =>
       /\ \A st \in 1..8 : StageCount(canvas, st) = StageCalls[st]
       /\ saves = 1
  /\ file # <<>> => HubIntact(file[1]) /\ OverlapWhite(file[1])

\* C10 (amended): the drawing steps run at most once each, in the order
\* gradient, clock face, hour markers, hour hand, minute hand, centre hub,
\* text shadow, main text, and the save is attempted once after them; the
\* six steps up to the hub always run, and shadow and main text both run
\* when nothing in the text overlay raises (a failure there skips the text
\* draws that remain).  The hub is painted over both hands, so in the saved
\* image every pixel of the radius-40 hub disc has the hub colour
\* (255,102,77), and wherever shadow and main text overlap the pixel is
\* white.
C10_StepOrder ==
  /\ InOrder(canvas)
  /\ \A st \in 1..8 : StageCount(canvas, st) <= StageCalls[st]
  /\ PastText \/ pc \in {"font_sfcompact", "font_helvetica", "font_default",
                         "textbbox", "shadow", "main_text", "except"} =>
       \A st \in 1..6 : StageCount(canvas, st) = StageCalls[st]
  /\ PastText /\ Diagnostics = {} =>
       \A st \in 7..8 : StageCount(canvas, st) = StageCalls[st]
  /\ saves <= 1
  /\ saves = 1 => PastText /\ pc # "save"
  /\ pc = "center_hub" => ColourAt(canvas, center, center) = <<77, 77, 77>>
  /\ file # <<>> =>
       /\ file = <<canvas>>
       /\ HubIntact(file[1])
       /\ OverlapWhite(file[1])

\* a complete run: all steps ran, the hub covers the hands at the centre and
\* the text covers its shadow where they overlap
C10_Witness ==
  /\ pc = "done"
  /\ \A st \in 1..8 : StageCount(file[1], st) = StageCalls[st]
  /\ ColourAt(file[1], center, center) = marker_color
  /\ OverlapPixels(file[1]) # {}

====
